---- MODULE Spec2Model ----
(***************************************************************************)
(* English School booking application (src/app.py): the pricing            *)
(* calculator, the SQLite-backed booking store and the request handlers    *)
(* /book and /admin, each request served by its own worker with its own    *)
(* connection kept on the Flask g object.                                  *)
(***************************************************************************)
EXTENDS Integers, Sequences, FiniteSets, TLC

\* ---------------------------------------------------------------- bounds
NumWorkers == 2
MaxRequests == 3
MaxBookings == 2
MaxCalcHours == 16

\* ------------------------------------------------------- program constants
GROUP_PRICE == 590
INDIVIDUAL_PRICE == 790

\* Python's None, as a form value / SQL NULL
None == "None"
\* None where the value would otherwise be a sequence of characters
NoneText == <<None>>

Workers == 1..NumWorkers

\* ------------------------------------------------------------- form inputs
\* request.form of the submissions tried: plan and hours vary, hours being
\* the text typed (a sequence of characters) or missing
Form(plan, hours) ==
    [name |-> "Anna", email |-> "a@x.com", phone |-> None, plan |-> plan,
     hours |-> hours, notes |-> None]
Forms == {Form("group", <<"2">>),
          Form("individual", <<"0">>),
          Form("individual", <<"-", "3">>),
          Form("vip", <<"1", "6">>),
          Form("vip", <<"x">>),
          Form("individual", <<>>),
          Form(None, NoneText)}
PlanForms == {"group", "individual", "vip", None}
Timestamps == {"2024-01-01T10:00:00"}

\* --------------------------------------------------------- pure functions
Max(a, b) == IF a >= b THEN a ELSE b

\* prices.get(plan, GROUP_PRICE)
prices_get_no_default(plan) ==
    CASE plan = "group" -> GROUP_PRICE
      [] plan = "individual" -> INDIVIDUAL_PRICE
      [] OTHER -> 0

prices_get(plan) ==
    CASE plan = "group" -> GROUP_PRICE
      [] plan = "individual" -> INDIVIDUAL_PRICE
      [] OTHER -> GROUP_PRICE

calculate_price_no_clamp(plan, hours) == prices_get(plan) * hours

calculate_price(plan, hours) == prices_get(plan) * Max(1, hours)

Digits == {"0", "1", "2", "3", "4", "5", "6", "7", "8", "9"}

DigitValue(c) ==
    CASE c = "0" -> 0 [] c = "1" -> 1 [] c = "2" -> 2 [] c = "3" -> 3
      [] c = "4" -> 4 [] c = "5" -> 5 [] c = "6" -> 6 [] c = "7" -> 7
      [] c = "8" -> 8 [] c = "9" -> 9

RECURSIVE DigitsValue(_)
DigitsValue(s) ==
    IF Len(s) = 0 THEN 0
    ELSE 10 * DigitsValue(SubSeq(s, 1, Len(s) - 1)) + DigitValue(s[Len(s)])

AllDigits(s) == Len(s) > 0 /\ \A i \in 1..Len(s) : s[i] \in Digits

\* int(text) succeeds: optional sign followed by at least one digit
IntParses(s) ==
    \/ AllDigits(s)
    \/ Len(s) > 1 /\ s[1] = "-" /\ AllDigits(Tail(s))

IntValue(s) == IF s[1] = "-" THEN 0 - DigitsValue(Tail(s)) ELSE DigitsValue(s)

\* outcome of: try: hours = int(form.get('hours') or 1) / except ValueError: hours = 1
ParseHoursUncaught(raw) ==
    IF raw = NoneText \/ raw = <<>> THEN [error |-> FALSE, hours |-> 1]
    ELSE IF IntParses(raw) THEN [error |-> FALSE, hours |-> IntValue(raw)]
    ELSE [error |-> TRUE, hours |-> 1]

ParseHours(raw) ==
    IF raw = NoneText \/ raw = <<>> THEN [error |-> FALSE, hours |-> 1]
    ELSE IF IntParses(raw) THEN [error |-> FALSE, hours |-> IntValue(raw)]
    ELSE [error |-> FALSE, hours |-> 1]


\* ------------------------------------------------------------------ state
VARIABLES
    file_exists,    \* os.path.exists(DATABASE)
    schema,         \* tables of the database file, in creation order
    rows,           \* committed rows of the bookings table
    seq,            \* largest id ever assigned (AUTOINCREMENT counter)
    lock,           \* worker holding the database write lock, 0 when free
    pc,             \* position of each worker in its request
    kind,           \* request each worker is serving
    need_init,      \* get_db's local need_init
    conn,           \* g._database is set
    req,            \* request.form.get('hours') of the POST being handled
    txn,            \* rows inserted on the connection and not yet committed
    result,         \* bookings list built by admin()
    outcome,        \* response of the request
    last_values,    \* values tuple of the most recently committed INSERT
    served,         \* number of requests accepted so far
    calc_plan, calc_hours, calc_result   \* a direct call of calculate_price

dbvars == <<file_exists, schema, rows, seq, lock>>
workervars == <<pc, kind, need_init, conn, req, txn, result, outcome>>
calcvars == <<calc_plan, calc_hours, calc_result>>
vars == <<file_exists, schema, rows, seq, lock, pc, kind, need_init, conn,
          req, txn, result, outcome, last_values, served,
          calc_plan, calc_hours, calc_result>>

NoWorker == 0
NoValues == [name |-> None, email |-> None, phone |-> None, plan |-> None,
             hours |-> 0, price |-> 0, notes |-> None]
NoResult == -1
Kinds == {"POST /book", "GET /book", "GET /admin", "GET /admin (bad pw)"}

Range(f) == {f[i] : i \in DOMAIN f}
HasTable == "bookings" \in Range(schema)
TableCount(sch) == Cardinality({i \in DOMAIN sch : sch[i] = "bookings"})
Ids(rs) == {r.id : r \in rs}

Init ==
    /\ file_exists = FALSE
    /\ schema = <<>>
    /\ rows = {}
    /\ seq = 0
    /\ lock = NoWorker
    /\ pc = [w \in Workers |-> "idle"]
    /\ kind = [w \in Workers |-> "none"]
    /\ need_init = [w \in Workers |-> FALSE]
    /\ conn = [w \in Workers |-> FALSE]
    /\ req = [w \in Workers |-> NoneText]
    /\ txn = [w \in Workers |-> {}]
    /\ result = [w \in Workers |-> <<>>]
    /\ outcome = [w \in Workers |-> "none"]
    /\ last_values = NoValues
    /\ served = 0
    /\ calc_plan = None
    /\ calc_hours = 0
    /\ calc_result = NoResult

\* ------------------------------------------------------ request dispatch
InFlightPosts == {v \in Workers : kind[v] = "POST /book"}

\* a request arrives; admin() checks the password, then the handler calls
\* get_db(), whose first act is: need_init = not os.path.exists(DATABASE)
StartRequest(w) ==
    /\ pc[w] = "idle"
    /\ served < MaxRequests
    /\ served' = served + 1
    /\ \E k \in Kinds :
        /\ k = "POST /book" => seq + Cardinality(InFlightPosts) < MaxBookings
        /\ kind' = [kind EXCEPT ![w] = k]
        /\ IF k = "GET /admin (bad pw)"
           THEN /\ outcome' = [outcome EXCEPT ![w] = "401"]
                /\ pc' = [pc EXCEPT ![w] = "teardown"]
                /\ UNCHANGED need_init
           ELSE /\ outcome' = outcome
                /\ need_init' = [need_init EXCEPT ![w] = ~file_exists]
                /\ pc' = [pc EXCEPT ![w] = "connect"]
    /\ UNCHANGED <<dbvars, conn, req, txn, result, last_values, calcvars>>

\* ----------------------------------------------------------------- get_db
get_db_connect(w) ==
    /\ pc[w] = "connect"
    /\ file_exists' = TRUE
    /\ conn' = [conn EXCEPT ![w] = TRUE]
    /\ pc' = [pc EXCEPT ![w] = IF need_init[w] THEN "init_db" ELSE "handler"]
    /\ need_init' = [need_init EXCEPT ![w] = FALSE]
    /\ UNCHANGED <<schema, rows, seq, lock, kind, req, txn, result,
                   outcome, last_values, served, calcvars>>

\* CREATE TABLE IF NOT EXISTS bookings (...)
CreateTableAlways(sch) == Append(sch, "bookings")

CreateTableIfNotExists(sch) ==
    IF "bookings" \in Range(sch) THEN sch ELSE Append(sch, "bookings")

init_db(w) ==
    /\ pc[w] = "init_db"
    /\ schema' = CreateTableIfNotExists(schema)
    /\ pc' = [pc EXCEPT ![w] = "handler"]
    /\ UNCHANGED <<file_exists, rows, seq, lock, kind, need_init, conn, req, txn,
                   result, outcome, last_values, served, calcvars>>


\* ------------------------------------------------------------ POST /book
\* the values bound to the INSERT statement, created_at aside
BookValuesGroupPrice(form) ==
    LET hours == ParseHours(form.hours).hours
    IN  [name |-> form.name, email |-> form.email, phone |-> form.phone,
         plan |-> form.plan, hours |-> hours,
         price |-> calculate_price("group", hours), notes |-> form.notes]

BookValues(form) ==
    LET hours == ParseHours(form.hours).hours
    IN  [name |-> form.name, email |-> form.email, phone |-> form.phone,
         plan |-> form.plan, hours |-> hours,
         price |-> calculate_price(form.plan, hours), notes |-> form.notes]

\* id INTEGER PRIMARY KEY AUTOINCREMENT
NextId(s) == s + 1

\* a connection may write when no other connection holds the write lock
CanWriteUnlocked(w) == TRUE

CanWrite(w) == lock \in {NoWorker, w}

MakeRow(id, v, ts) ==
    [id |-> id, name |-> v.name, email |-> v.email, phone |-> v.phone,
     plan |-> v.plan, hours |-> v.hours, price |-> v.price, notes |-> v.notes,
     created_at |-> ts]

RowValues(r) ==
    [name |-> r.name, email |-> r.email, phone |-> r.phone, plan |-> r.plan,
     hours |-> r.hours, price |-> r.price, notes |-> r.notes]

\* the connection's view of the AUTOINCREMENT counter, own pending rows included
SeqSeen(w) == IF txn[w] = {} THEN seq ELSE Max(seq, CHOOSE i \in Ids(txn[w]) : \A j \in Ids(txn[w]) : j <= i)

book_post(w) ==
    /\ pc[w] = "handler"
    /\ kind[w] = "POST /book"
    /\ HasTable => CanWrite(w)
    /\ \E form \in Forms, ts \in Timestamps :
        /\ req' = [req EXCEPT ![w] = form.hours]
        /\ IF ParseHours(form.hours).error
           THEN /\ outcome' = [outcome EXCEPT ![w] = "500 ValueError"]
                /\ pc' = [pc EXCEPT ![w] = "teardown"]
                /\ UNCHANGED <<lock, txn>>
           ELSE IF ~HasTable
           THEN /\ outcome' = [outcome EXCEPT ![w] = "500 OperationalError"]
                /\ pc' = [pc EXCEPT ![w] = "teardown"]
                /\ UNCHANGED <<lock, txn>>
           ELSE /\ lock' = w
                /\ txn' = [txn EXCEPT ![w] =
                              @ \cup {MakeRow(NextId(SeqSeen(w)), BookValues(form), ts)}]
                /\ pc' = [pc EXCEPT ![w] = "commit"]
                /\ UNCHANGED outcome
    /\ UNCHANGED <<file_exists, schema, rows, seq, kind, need_init, conn, result,
                   last_values, served, calcvars>>

\* the write lock stays with another connection past the busy timeout
book_post_busy(w) ==
    /\ pc[w] = "handler"
    /\ kind[w] = "POST /book"
    /\ HasTable
    /\ ~CanWrite(w)
    /\ \E form \in Forms :
        /\ req' = [req EXCEPT ![w] = form.hours]
        /\ outcome' = [outcome EXCEPT ![w] =
              IF ParseHours(form.hours).error THEN "500 ValueError"
              ELSE "500 OperationalError"]
    /\ pc' = [pc EXCEPT ![w] = "teardown"]
    /\ UNCHANGED <<dbvars, kind, need_init, conn, txn, result, last_values, served, calcvars>>

\* db.commit(), flash, redirect
CommitReplace(rs, pending) == pending

CommitRows(rs, pending) == rs \cup pending

book_commit(w) ==
    /\ pc[w] = "commit"
    /\ rows' = CommitRows(rows, txn[w])
    /\ seq' = SeqSeen(w)
    /\ last_values' = RowValues(CHOOSE r \in txn[w] : \A q \in txn[w] : q.id <= r.id)
    /\ lock' = IF lock = w THEN NoWorker ELSE lock
    /\ txn' = [txn EXCEPT ![w] = {}]
    /\ outcome' = [outcome EXCEPT ![w] = "302"]
    /\ pc' = [pc EXCEPT ![w] = "teardown"]
    /\ UNCHANGED <<file_exists, schema, kind, need_init, conn, req, result, served, calcvars>>

\* ------------------------------------------------------------- GET /book
book_get(w) ==
    /\ pc[w] = "handler"
    /\ kind[w] = "GET /book"
    /\ outcome' = [outcome EXCEPT ![w] = "200"]
    /\ pc' = [pc EXCEPT ![w] = "teardown"]
    /\ UNCHANGED <<dbvars, kind, need_init, conn, req, txn, result, last_values, served, calcvars>>

\* ---------------------------------------------------------------- /admin
RECURSIVE OrderByIdAsc(_)
OrderByIdAsc(rs) ==
    IF rs = {} THEN <<>>
    ELSE LET m == CHOOSE r \in rs : \A q \in rs : r.id <= q.id
         IN  <<m>> \o OrderByIdAsc(rs \ {m})

RECURSIVE OrderByIdDesc(_)
OrderByIdDesc(rs) ==
    IF rs = {} THEN <<>>
    ELSE LET m == CHOOSE r \in rs : \A q \in rs : q.id <= r.id
         IN  <<m>> \o OrderByIdDesc(rs \ {m})

admin(w) ==
    /\ pc[w] = "handler"
    /\ kind[w] = "GET /admin"
    /\ IF HasTable
       THEN /\ result' = [result EXCEPT ![w] = OrderByIdDesc(rows)]
            /\ outcome' = [outcome EXCEPT ![w] = "200"]
       ELSE /\ result' = result
            /\ outcome' = [outcome EXCEPT ![w] = "500 OperationalError"]
    /\ pc' = [pc EXCEPT ![w] = "teardown"]
    /\ UNCHANGED <<dbvars, kind, need_init, conn, req, txn, last_values, served, calcvars>>

\* ------------------------------------------------------ close_connection
close_connection(w) ==
    /\ pc[w] = "teardown"
    /\ IF conn[w]
       THEN /\ lock' = IF lock = w THEN NoWorker ELSE lock
            /\ txn' = [txn EXCEPT ![w] = {}]
       ELSE UNCHANGED <<lock, txn>>
    /\ conn' = [conn EXCEPT ![w] = FALSE]
    /\ kind' = [kind EXCEPT ![w] = "none"]
    /\ need_init' = [need_init EXCEPT ![w] = FALSE]
    /\ req' = [req EXCEPT ![w] = NoneText]
    /\ result' = [result EXCEPT ![w] = <<>>]
    /\ outcome' = [outcome EXCEPT ![w] = "none"]
    /\ pc' = [pc EXCEPT ![w] = "idle"]
    /\ UNCHANGED <<file_exists, schema, rows, seq, last_values, served, calcvars>>

Next ==
    \E w \in Workers :
        \/ StartRequest(w)
        \/ get_db_connect(w)
        \/ init_db(w)
        \/ book_post(w)
        \/ book_post_busy(w)
        \/ book_commit(w)
        \/ book_get(w)
        \/ admin(w)
        \/ close_connection(w)

Spec == Init /\ [][Next]_vars

\* ----------------------------------------- calculate_price called directly
CalcHours == (0 - MaxCalcHours)..MaxCalcHours

InitCalc ==
    /\ file_exists = FALSE
    /\ schema = <<>>
    /\ rows = {}
    /\ seq = 0
    /\ lock = NoWorker
    /\ pc = [w \in Workers |-> "idle"]
    /\ kind = [w \in Workers |-> "none"]
    /\ need_init = [w \in Workers |-> FALSE]
    /\ conn = [w \in Workers |-> FALSE]
    /\ req = [w \in Workers |-> NoneText]
    /\ txn = [w \in Workers |-> {}]
    /\ result = [w \in Workers |-> <<>>]
    /\ outcome = [w \in Workers |-> "none"]
    /\ last_values = NoValues
    /\ served = 0
    /\ calc_plan \in PlanForms
    /\ calc_hours \in CalcHours
    /\ calc_result = NoResult

Calculate ==
    /\ calc_result = NoResult
    /\ calc_result' = calculate_price(calc_plan, calc_hours)
    /\ UNCHANGED <<dbvars, workervars, last_values, served, calc_plan, calc_hours>>

NextCalc == Calculate

SpecCalc == InitCalc /\ [][NextCalc]_vars


\* ============================================================ properties
MaxId(rs) == IF rs = {} THEN 0 ELSE CHOOSE i \in Ids(rs) : \A j \in Ids(rs) : j <= i
Malformed(raw) == raw = NoneText \/ raw = <<>> \/ ~IntParses(raw)
Acts(w) == pc'[w] # pc[w]

\* C1: for a recognized plan P and any integer H, calculate_price(P, H) is
\* rate(P) * H when H >= 1 and rate(P) * 1 when H <= 0, with rate(group) = 590
\* and rate(individual) = 790.
C1_RecognizedPlanPrice ==
    (calc_result # NoResult /\ calc_plan \in {"group", "individual"}) =>
        LET rate == IF calc_plan = "group" THEN 590 ELSE 790
        IN  /\ calc_hours >= 1 => calc_result = rate * calc_hours
            /\ calc_hours <= 0 => calc_result = rate * 1

C1_Witness ==
    calc_plan = "individual" /\ calc_hours = -3 /\ calc_result = 790

\* C2: for a plan that is neither 'group' nor 'individual' (a missing plan
\* included) and H >= 1, calculate_price returns 590 * H, a price and not an
\* error.
C2_UnrecognizedPlanFallsBackToGroup ==
    (calc_result # NoResult /\ calc_plan \notin {"group", "individual"}
        /\ calc_hours >= 1) =>
        calc_result = 590 * calc_hours /\ calc_result \in Nat

C2_Witness ==
    calc_plan = None /\ calc_hours = 8 /\ calc_result = 4720

\* C3: every stored booking record has hours >= 1 and, for a recognized plan,
\* price = unit_rate(plan) * hours, whatever the form carried.
C3_StoredPriceIsRateTimesHours ==
    \A r \in rows :
        /\ r.hours >= 1
        /\ r.plan = "group" => r.price = 590 * r.hours
        /\ r.plan = "individual" => r.price = 790 * r.hours

\* C4: under any interleaving of workers, every change of the table is one
\* committed insert adding exactly one new record whose identifier is one
\* more than the largest identifier stored before it; identifiers are unique.
C4_IdentifiersIncreaseWithoutGaps ==
    [][rows' # rows =>
          /\ \E r \in rows' :
                /\ r \notin rows
                /\ rows' = rows \cup {r}
                /\ r.id = MaxId(rows) + 1
          /\ Cardinality(Ids(rows')) = Cardinality(rows')]_vars

C4_Witness ==
    /\ Ids(rows) = {1, 2}
    /\ Cardinality(rows) = 2
    /\ \E w \in Workers, v \in Workers :
          /\ w # v
          /\ kind[w] = "POST /book" /\ pc[w] = "teardown" /\ outcome[w] = "302"
          /\ kind[v] = "POST /book" /\ pc[v] = "teardown" /\ outcome[v] = "302"

\* C5: a listing returns every stored record in descending identifier order,
\* and its first element carries the name, email, phone, plan, hours, price
\* and notes of the most recently committed booking, with an identifier and a
\* timestamp.
C5_InsertListRoundTrip ==
    [][\A w \in Workers :
          (pc[w] = "handler" /\ kind[w] = "GET /admin" /\ outcome'[w] = "200") =>
              LET L == result'[w]
              IN  /\ Len(L) = Cardinality(rows)
                  /\ {L[i] : i \in 1..Len(L)} = rows
                  /\ \A i \in 1..(Len(L) - 1) : L[i].id > L[i + 1].id
                  /\ rows # {} =>
                        /\ L[1].name = last_values.name
                        /\ L[1].email = last_values.email
                        /\ L[1].phone = last_values.phone
                        /\ L[1].plan = last_values.plan
                        /\ L[1].hours = last_values.hours
                        /\ L[1].price = last_values.price
                        /\ L[1].notes = last_values.notes
                        /\ L[1].id >= 1
                        /\ L[1].created_at \in Timestamps]_vars

C5_Witness ==
    \E w \in Workers :
        /\ kind[w] = "GET /admin" /\ pc[w] = "teardown" /\ outcome[w] = "200"
        /\ Len(result[w]) = 2
        /\ result[w][1].id = 2

\* C6: no step removes or changes a stored record; get_db, init_db and
\* close_connection leave the records alone, every step of a GET /book or a
\* listing request leaves the records and the identifier counter unchanged,
\* and the listing query and the GET /book rendering leave the whole
\* database unchanged.
C6_AppendOnly ==
    [][/\ rows \subseteq rows'
       /\ \A w \in Workers : Acts(w) =>
             LET k == IF pc[w] = "idle" THEN kind'[w] ELSE kind[w]
             IN  /\ pc[w] \in {"idle", "connect", "init_db", "teardown"} =>
                        rows' = rows /\ seq' = seq
                 /\ k # "POST /book" => rows' = rows /\ seq' = seq
                 /\ (k # "POST /book" /\ pc[w] = "handler") =>
                        UNCHANGED dbvars]_vars

C6_Witness ==
    /\ Cardinality(rows) = 1
    /\ \E w \in Workers, v \in Workers :
          /\ kind[w] = "GET /book" /\ pc[w] = "teardown"
          /\ kind[v] = "GET /admin" /\ pc[v] = "teardown" /\ outcome[v] = "200"

\* C7: init_db run on a store that already has the bookings table leaves
\* exactly one bookings table and every record unchanged.
C7_InitDbIdempotent ==
    [][\A w \in Workers :
          (pc[w] = "init_db" /\ Acts(w) /\ HasTable) =>
              /\ schema' = schema
              /\ TableCount(schema') = 1
              /\ rows' = rows
              /\ seq' = seq]_vars

C7_Witness ==
    \E w \in Workers : pc[w] = "init_db" /\ HasTable /\ rows # {}

\* C8: starting from no database file, whenever a worker whose get_db has
\* returned is about to run its insert or its listing query, the bookings
\* table exists.
C8_TableExistsAfterGetDb ==
    \A w \in Workers :
        (pc[w] = "handler" /\ kind[w] \in {"POST /book", "GET /admin"}) => HasTable

\* C9: a POST /book whose hours value is missing, empty or not an integer
\* never ends in a ValueError, and when its insert commits exactly one record
\* is added, with hours 1 and price rate(plan) * 1.
C9_MalformedHoursCoerced ==
    [][\A w \in Workers :
          (kind'[w] = "POST /book" /\ pc'[w] \in {"commit", "teardown"}
              /\ Malformed(req'[w])) =>
              /\ outcome'[w] # "500 ValueError"
              /\ (pc[w] = "commit" /\ pc'[w] = "teardown") =>
                    \E r \in rows' :
                        /\ r \notin rows
                        /\ rows' = rows \cup {r}
                        /\ r.hours = 1
                        /\ r.price = (IF r.plan = "individual" THEN 790 ELSE 590)]_vars

C9_Witness ==
    \E w \in Workers :
        /\ kind[w] = "POST /book" /\ pc[w] = "teardown" /\ outcome[w] = "302"
        /\ req[w] = <<"x">>
        /\ \E r \in rows : r.plan = "vip" /\ r.hours = 1 /\ r.price = 590

\* C10: the price stored in each booking record is calculate_price of the
\* plan and the hours stored in the same record.
C10_StoredPriceIsCalculatorOutput ==
    \A r \in rows : r.price = calculate_price(r.plan, r.hours)

C10_Witness ==
    \E r \in rows : r.plan = "individual" /\ r.hours = 0 /\ r.price = 790

====
